---- MODULE Spec2Model ----
(***************************************************************************)
(* grokomation: a gateway that keeps a registry of backend sessions        *)
(* (correlation id -> port), caches each backend's OpenAPI document,       *)
(* validates proxied requests against it and forwards them.                *)
(*                                                                         *)
(* Conventions of this model                                               *)
(*   - Text (paths, templates) is a sequence of one-character strings.     *)
(*   - Python's Optional[x] is a sequence of length <= 1: <<>> is None.    *)
(*   - The SQLite table `instances` is the set of its rows.                *)
(***************************************************************************)
EXTENDS Integers, Sequences, FiniteSets, TLC

VARIABLES
    instances,   \* rows of table instances (database.py)
    regRet,      \* the last Session Registry call and what it returned
    hist,        \* the Put/Delete calls made so far, oldest first
    valIn,       \* validate_request's arguments (spec, method, path)
    valOut,      \* validate_request's outcome, once it has run
    spec_cache,  \* _spec_cache: (hostname, port) -> (spec, timestamp)
    now,         \* time.time(), in seconds
    specCall,    \* the get_openapi_spec call in progress or just finished
    req,         \* the proxied request being handled, or the last one answered
    hits,        \* the rate limiter's storage: client address -> window
    adminRet,    \* the last POST /instances or DELETE /instances/{id} answer
    shell,       \* what the last setup_env.sh / cleanup_env.sh run gave back
    genLog,      \* correlation ids the gateway generated, oldest first
    normIn,      \* the sub-path a proxy route received
    normOut,     \* the path _proxy_request validates and forwards, once set
    procs,       \* the operating system's process table: pid -> process
    kill         \* the kill_opencode_process call in progress or just finished

regVars == <<instances, regRet, hist>>
valVars == <<valIn, valOut>>
cacheVars == <<spec_cache, now, specCall>>
gwVars == <<req, hits, adminRet, shell>>
normVars == <<normIn, normOut>>
procVars == <<procs, kill>>
auxVars == <<genLog, normVars, procVars>>
vars == <<instances, regRet, hist, valIn, valOut, spec_cache, now, specCall,
          req, hits, adminRet, shell, genLog, normIn, normOut, procs, kill>>

----------------------------------------------------------------------------
(* Input sets and bounds *)

CorrIds == {"corr-1", "corr-2"}
Ports == {9001, 9002}
MaxOps == 3
MaxTime == 1200
TickSteps == {300, 600}
GwMaxTime == 600
GwTickSteps == {600}
RateMaxTime == 90
RateTickSteps == {30}
MaxHits == 7

None == <<>>
Some(x) == <<x>>

----------------------------------------------------------------------------
(* Session Registry: database.py *)

Row(correlation_id, port) == [correlation_id |-> correlation_id, port |-> port]

RowsOf(rows, correlation_id) == {r \in rows : r.correlation_id = correlation_id}

\* A plain INSERT into a table without the primary key: keeps the old row.
insert_instance_no_replace(rows, correlation_id, port) ==
    rows \cup {Row(correlation_id, port)}

\* INSERT OR REPLACE on PRIMARY KEY correlation_id: the conflicting row is
\* deleted, then the new row is inserted.
insert_instance(rows, correlation_id, port) ==
    (rows \ RowsOf(rows, correlation_id)) \cup {Row(correlation_id, port)}

\* rowcount >= 0 instead of rowcount > 0.
delete_instance_always_true(rows, correlation_id) ==
    [rows |-> rows \ RowsOf(rows, correlation_id), ret |-> TRUE]

\* DELETE ... WHERE correlation_id = ?; returns cursor.rowcount > 0.
delete_instance(rows, correlation_id) ==
    [rows |-> rows \ RowsOf(rows, correlation_id),
     ret  |-> Cardinality(RowsOf(rows, correlation_id)) > 0]

\* SELECT port ... WHERE correlation_id = ?; fetchone(); row[0] or None.
get_instance_port(rows, correlation_id) ==
    IF RowsOf(rows, correlation_id) = {}
    THEN None
    ELSE Some((CHOOSE r \in RowsOf(rows, correlation_id) : TRUE).port)

\* SELECT correlation_id, port; the dict built from the rows.
get_all_instances(rows) ==
    [c \in {r.correlation_id : r \in rows} |->
        (CHOOSE r \in RowsOf(rows, c) : TRUE).port]

----------------------------------------------------------------------------
(* Request Validator: opencode.py *)

\* One declared path of an OpenAPI document: the template and the keys of its
\* methods object, as written. `paths` keeps the declared order (a dict).
PathItem(template, methods) == [template |-> template, methods |-> methods]

SchemaWidgets ==
    [hasPaths |-> TRUE,
     paths |-> << PathItem(<<"/", "w", "/", "{", "i", "}">>, {"get", "delete"}),
                  PathItem(<<"/", "s">>, {"GET"}) >>]

\* Two templates match /w/4; the first declared one lacks "get".
SchemaOverlap ==
    [hasPaths |-> TRUE,
     paths |-> << PathItem(<<"/", "w", "/", "{", "i", "}">>, {"post"}),
                  PathItem(<<"/", "w", "/", "4">>, {"get"}) >>]

SchemaNoPaths == [hasPaths |-> FALSE, paths |-> <<>>]

Schemas == {SchemaWidgets, SchemaOverlap, SchemaNoPaths}

Methods == {"GET", "get", "POST", "DELETE"}

ValPaths ==
    { <<"/", "w", "/", "4">>,
      <<"/", "w", "/", "%", "3", "4">>,
      <<"/", "w", "/", "4", "%", "2", "F", "4">>,
      <<"/", "w", "/">>,
      <<"/", "w", "/", "4", "/", "4">>,
      <<"/", "s">>,
      <<"/", "u">>,
      <<"/", "s", "/">> }

\* str.lower() on the method names in use.
Lower(m) ==
    CASE m \in {"GET", "Get", "get"} -> "get"
      [] m \in {"POST", "Post", "post"} -> "post"
      [] m \in {"PUT", "put"} -> "put"
      [] m \in {"PATCH", "patch"} -> "patch"
      [] m \in {"DELETE", "Delete", "delete"} -> "delete"
      [] OTHER -> m

\* urllib.parse.unquote on the escapes in use: %34 is "4", %2F is "/".
PctDecode(h1, h2) ==
    CASE h1 = "3" /\ h2 = "4" -> <<"4">>
      [] h1 = "2" /\ h2 = "F" -> <<"/">>
      [] OTHER -> <<"%", h1, h2>>

RECURSIVE unquote(_)
unquote(path) ==
    IF path = <<>> THEN <<>>
    ELSE IF path[1] = "%" /\ Len(path) >= 3
         THEN PctDecode(path[2], path[3]) \o unquote(SubSeq(path, 4, Len(path)))
         ELSE <<path[1]>> \o unquote(Tail(path))

\* A pattern is a sequence of tokens: a literal character, or SEG for [^/]+.
SEG == "[^/]+"

\* Where the placeholder opened at position 1 of t closes: the first "}" at
\* position >= 3 with no "}" before it (\{[^}]+\}); 0 when there is none.
PlaceholderEnd(t) ==
    IF t # <<>> /\ t[1] = "{"
       /\ \E j \in 3..Len(t) : t[j] = "}" /\ \A k \in 2..(j-1) : t[k] # "}"
    THEN CHOOSE j \in 3..Len(t) : t[j] = "}" /\ \A k \in 2..(j-1) : t[k] # "}"
    ELSE 0

\* re.sub(r"\{[^}]+\}", r"[^/]+", template), anchored by ^ and $.
RECURSIVE path_template_to_regex(_)
path_template_to_regex(template) ==
    IF template = <<>> THEN <<>>
    ELSE IF PlaceholderEnd(template) > 0
         THEN <<SEG>> \o path_template_to_regex(
                  SubSeq(template, PlaceholderEnd(template) + 1, Len(template)))
         ELSE <<template[1]>> \o path_template_to_regex(Tail(template))

\* re.match of an anchored pattern against the whole text.
RECURSIVE ReMatch(_, _)
ReMatch(pattern, text) ==
    IF pattern = <<>> THEN text = <<>>
    ELSE IF pattern[1] = SEG
         THEN \E n \in 1..Len(text) :
                 /\ \A k \in 1..n : text[k] # "/"
                 /\ ReMatch(Tail(pattern), SubSeq(text, n + 1, Len(text)))
         ELSE /\ text # <<>>
              /\ text[1] = pattern[1]
              /\ ReMatch(Tail(pattern), Tail(text))

Accepted == [ok |-> TRUE, reason |-> "ok"]
Rejected(reason) == [ok |-> FALSE, reason |-> reason]

\* The statements after the bare `return`: never executed.
RECURSIVE validate_paths(_, _, _)
validate_paths(paths, method, path) ==
    IF paths = <<>> THEN Rejected("path not found in spec")
    ELSE IF ReMatch(path_template_to_regex(paths[1].template), path)
         THEN IF Lower(method) \in {Lower(m) : m \in paths[1].methods}
              THEN Accepted
              ELSE Rejected("method not allowed for path")
         ELSE validate_paths(Tail(paths), method, path)

validate_request_unreachable(spec, method, path) ==
    IF ~spec.hasPaths THEN Rejected("no paths defined")
    ELSE validate_paths(spec.paths, method, unquote(path))

\* validate_request: its first statement is `return`.
validate_request(spec, method, path) == Accepted

ValIdle ==
    /\ valIn = [spec |-> SchemaNoPaths, method |-> "GET", path |-> <<>>]
    /\ valOut = None

----------------------------------------------------------------------------
(* Spec Cache: opencode.py *)

\* get_openapi_spec's default ttl.
TTL == 600

\* The cache key (hostname, port); every caller passes "localhost".
Key(port) == <<"localhost", port>>
Keys == {Key(p) : p \in Ports}

CacheEntry(spec, timestamp) == [spec |-> spec, timestamp |-> timestamp]

\* What the GET of http://{hostname}:{port}/doc can come to.
FetchOk(doc) == [kind |-> "ok", doc |-> Some(doc)]
FetchFailed(kind) == [kind |-> kind, doc |-> None]
FetchFailures ==
    { FetchFailed("connect_error"),    \* client.get raises httpx.ConnectError
      FetchFailed("status_error"),     \* raise_for_status raises HTTPStatusError
      FetchFailed("malformed_body") }  \* response.json() raises a ValueError

\* The exception a failed fetch raises out of get_openapi_spec.
Raised(outcome) ==
    CASE outcome.kind = "ok" -> "none"
      [] outcome.kind = "connect_error" -> "httpx.RequestError"
      [] outcome.kind = "status_error" -> "httpx.HTTPStatusError"
      [] outcome.kind = "malformed_body" -> "ValueError"

\* A get_openapi_spec call: where it stands, its key, its locals `now` (now0)
\* and `timestamp` (seen: the entry's, when the key was in the cache), the
\* number of GETs it sent, and what it returned or raised.
SpecCall(pc, key, now0, seen, fetched, result, error) ==
    [pc |-> pc, key |-> key, now0 |-> now0, seen |-> seen, fetched |-> fetched,
     result |-> result, error |-> error]

NoSpecCall == SpecCall("idle", Key(9001), 0, None, 0, None, "none")

Seen(cache, key) ==
    IF cache[key] # None THEN Some(cache[key][1].timestamp) ELSE None

\* now - timestamp <= ttl instead of now - timestamp < ttl.
get_openapi_spec_begin_off_by_one(cache, key, t, ttl) ==
    IF cache[key] # None /\ t - cache[key][1].timestamp <= ttl
    THEN SpecCall("done", key, t, Seen(cache, key), 0,
                  Some(cache[key][1].spec), "none")
    ELSE SpecCall("fetching", key, t, Seen(cache, key), 1, None, "none")

\* Lines 22-32: the key, now = time.time(), the cache test; on a fresh entry
\* the call returns it, otherwise it sends the GET and awaits the response.
get_openapi_spec_begin(cache, key, t, ttl) ==
    IF cache[key] # None /\ t - cache[key][1].timestamp < ttl
    THEN SpecCall("done", key, t, Seen(cache, key), 0,
                  Some(cache[key][1].spec), "none")
    ELSE SpecCall("fetching", key, t, Seen(cache, key), 1, None, "none")

\* A failure is cached too, as an empty document.
get_openapi_spec_return_caches_failure(cache, call, outcome) ==
    IF outcome.kind = "ok"
    THEN [cache |-> [cache EXCEPT ![call.key] =
                        Some(CacheEntry(outcome.doc[1], call.now0))],
          call |-> [call EXCEPT !.pc = "done", !.result = outcome.doc]]
    ELSE [cache |-> [cache EXCEPT ![call.key] =
                        Some(CacheEntry(SchemaNoPaths, call.now0))],
          call |-> [call EXCEPT !.pc = "done", !.error = Raised(outcome)]]

\* Lines 32-37: the response arrives; raise_for_status and json() may raise;
\* otherwise the entry is stored under the `now` read at line 23.
get_openapi_spec_return(cache, call, outcome) ==
    IF outcome.kind = "ok"
    THEN [cache |-> [cache EXCEPT ![call.key] =
                        Some(CacheEntry(outcome.doc[1], call.now0))],
          call |-> [call EXCEPT !.pc = "done", !.result = outcome.doc]]
    ELSE [cache |-> cache,
          call |-> [call EXCEPT !.pc = "done", !.error = Raised(outcome)]]

CacheEmpty ==
    /\ spec_cache = [k \in Keys |-> None]
    /\ now = 0
    /\ specCall = NoSpecCall

----------------------------------------------------------------------------
(* Proxy Gateway: main.py *)

Clients == {"10.0.0.1", "10.0.0.2"}

\* The sub-paths a caller sends: /s is declared by SchemaWidgets for GET only,
\* "u" comes without its leading separator and is declared by no document.
GwPaths == { <<"/", "s">>, <<"u">> }

HTTPException(status, detail) == [status |-> status, body |-> detail]

\* An outbound HTTP call made while handling a request.
DocCall(port) == [kind |-> "doc", port |-> port]
ForwardCall(port) == [kind |-> "forward", port |-> port]

\* What client.request(...) to the backend can come to.
BackendAnswer(status, body) ==
    [kind |-> "answer", status |-> status, body |-> body]
BackendDown == [kind |-> "connect_error", status |-> 0, body |-> ""]
BackendAnswers == { BackendAnswer(200, "{echo: true}"),
                    BackendAnswer(503, "busy") }

\* A proxied request: where its handler stands (idle, fetching: awaiting the
\* spec, forwarding: awaiting the backend, done), what the caller sent, the
\* handler's locals port and path, its get_openapi_spec call, the outbound
\* calls made for it, the backend's outcome and the response sent back.
Req(pc, method, corr, path, client, port, npath, call, out, up, resp) ==
    [pc |-> pc, method |-> method, corr |-> corr, path |-> path,
     client |-> client, port |-> port, npath |-> npath, call |-> call,
     outbound |-> out, upstream |-> up, response |-> resp]

NoReq == Req("idle", "GET", "corr-1", <<>>, "10.0.0.1", None, <<>>,
             NoSpecCall, {}, None, None)

\* Lines 209-210.
normalize_path(path) ==
    IF path # <<>> /\ path[1] = "/" THEN path ELSE <<"/">> \o path

\* Lines 213-218: the except clauses around check_request_validity, in order.
validation_failure(exc, detail) ==
    CASE exc = "InvalidRequestException" -> HTTPException(422, detail)
      [] exc = "httpx.RequestError" ->
            HTTPException(502, "Error fetching OpenAPI spec")
      [] OTHER -> HTTPException(500, "Error validating request")

\* Lines 212-229 once get_openapi_spec has returned or raised: the rest of
\* check_request_validity (validate_request), the except clauses, and the
\* forward call, which is awaited.
after_spec(r, call) ==
    IF call.error # "none"
    THEN [r EXCEPT !.call = call, !.pc = "done",
                   !.response = Some(validation_failure(call.error, ""))]
    ELSE LET v == validate_request(call.result[1], r.method, r.npath)
         IN IF ~v.ok
            THEN [r EXCEPT !.call = call, !.pc = "done",
                           !.response = Some(validation_failure(
                               "InvalidRequestException", v.reason))]
            ELSE [r EXCEPT !.call = call, !.pc = "forwarding",
                           !.outbound = @ \cup {ForwardCall(r.port[1])}]

\* The spec is fetched before the session is looked up.
proxy_request_begin_fetch_first(rows, cache, t, method, corr, path, client) ==
    LET r == Req("fetching", method, corr, path, client, Some(9001),
                 normalize_path(path),
                 get_openapi_spec_begin(cache, Key(9001), t, TTL),
                 {DocCall(9001)}, None, None)
    IN IF r.call.pc = "done" THEN after_spec(r, r.call) ELSE r

\* _proxy_request from line 206 to its first await.
proxy_request_begin(rows, cache, t, method, corr, path, client) ==
    LET port == get_instance_port(rows, corr)
    IN IF port = None
       THEN Req("done", method, corr, path, client, None, <<>>, NoSpecCall,
                {}, None, Some(HTTPException(404, "No active session")))
       ELSE LET call == get_openapi_spec_begin(cache, Key(port[1]), t, TTL)
                r == Req("fetching", method, corr, path, client, port,
                         normalize_path(path), call, {}, None, None)
            IN IF call.pc = "done"
               THEN after_spec(r, call)
               ELSE [r EXCEPT !.outbound = {DocCall(port[1])}]

\* The spec fetch of a request awaiting it returns or raises.
proxy_fetch_return(cache, r, outcome) ==
    [cache |-> get_openapi_spec_return(cache, r.call, outcome).cache,
     req   |-> after_spec(r, get_openapi_spec_return(cache, r.call, outcome).call)]

\* Lines 223-234: the backend's response is relayed; an exception of
\* client.request is caught nowhere and the server answers 500.
proxy_forward_return(r, outcome) ==
    IF outcome.kind = "answer"
    THEN [r EXCEPT !.pc = "done", !.upstream = Some(outcome),
                   !.response = Some(HTTPException(outcome.status, outcome.body))]
    ELSE [r EXCEPT !.pc = "done", !.upstream = Some(outcome),
                   !.response = Some(HTTPException(500, "Internal Server Error"))]

\* @limiter.limit("5/minute"), keyed by the client's address.
RateLimit == 5
RateWindow == 60

\* The limiter's counter of a client: live until its expiry, then forgotten.
LiveCount(storage, client, t) ==
    IF storage[client].count > 0 /\ storage[client].expiry > t
    THEN storage[client].count
    ELSE 0

\* The sixth request of a window passes too.
limiter_hit_allows_six(storage, client, t) ==
    [storage |-> [storage EXCEPT ![client] =
        [count  |-> LiveCount(storage, client, t) + 1,
         expiry |-> IF LiveCount(storage, client, t) > 0
                    THEN storage[client].expiry ELSE t + RateWindow]],
     allowed |-> LiveCount(storage, client, t) + 1 <= RateLimit + 1]

\* One hit on the fixed window of a client: the counter is incremented, a
\* counter created by this hit expires RateWindow seconds later, and the hit
\* is within the limit when the counter does not exceed RateLimit.
limiter_hit(storage, client, t) ==
    [storage |-> [storage EXCEPT ![client] =
        [count  |-> LiveCount(storage, client, t) + 1,
         expiry |-> IF LiveCount(storage, client, t) > 0
                    THEN storage[client].expiry ELSE t + RateWindow]],
     allowed |-> LiveCount(storage, client, t) + 1 <= RateLimit]

\* proxy_delete: the limiter's check, then _proxy_request; a request over the
\* limit is answered by _rate_limit_exceeded_handler.
proxy_delete(storage, rows, cache, t, corr, path, client) ==
    [storage |-> limiter_hit(storage, client, t).storage,
     req |-> IF limiter_hit(storage, client, t).allowed
             THEN proxy_request_begin(rows, cache, t, "DELETE", corr, path,
                                      client)
             ELSE Req("done", "DELETE", corr, path, client, None, <<>>,
                      NoSpecCall, {}, None,
                      Some(HTTPException(429, "Rate limit exceeded")))]

AdminRet(op, corr, status) == [op |-> op, corr |-> corr, status |-> status]

\* What a run of ./setup_env.sh or ./cleanup_env.sh gave back: ok is FALSE
\* when it exited non-zero (CalledProcessError), port is the port that
\* setup_env.sh printed.
ShellResult(script, corr, ok, port) ==
    [script |-> script, corr |-> corr, ok |-> ok, port |-> port]

NoShell == ShellResult("none", "corr-1", FALSE, None)

\* setup that answers "setup_complete" whatever the script's exit status.
setup_swallows_failure(rows, correlation_id, result) ==
    [rows   |-> IF result.ok
                THEN insert_instance(rows, correlation_id, result.port[1])
                ELSE rows,
     answer |-> AdminRet("setup", correlation_id, 200)]

\* POST /instances, from the script's result on: HTTPException(500) on
\* CalledProcessError, else insert_instance and "setup_complete".
setup(rows, correlation_id, result) ==
    IF ~result.ok
    THEN [rows |-> rows, answer |-> AdminRet("setup", correlation_id, 500)]
    ELSE [rows   |-> insert_instance(rows, correlation_id, result.port[1]),
          answer |-> AdminRet("setup", correlation_id, 200)]

\* cleanup that answers "cleaned" without calling delete_instance.
cleanup_without_delete(rows, corr_id, result) ==
    [rows   |-> rows,
     answer |-> AdminRet("cleanup", corr_id, IF result.ok THEN 200 ELSE 500)]

\* cleanup that calls delete_instance before it runs the script.
cleanup_deletes_first(rows, corr_id, result) ==
    [rows   |-> delete_instance(rows, corr_id).rows,
     answer |-> AdminRet("cleanup", corr_id, IF result.ok THEN 200 ELSE 500)]

\* DELETE /instances/{corr_id}, from the script's result on:
\* HTTPException(500) on CalledProcessError, else delete_instance and
\* "cleaned".
cleanup(rows, corr_id, result) ==
    IF ~result.ok
    THEN [rows |-> rows, answer |-> AdminRet("cleanup", corr_id, 500)]
    ELSE [rows   |-> delete_instance(rows, corr_id).rows,
          answer |-> AdminRet("cleanup", corr_id, 200)]

GwIdle ==
    /\ req = NoReq
    /\ hits = [c \in Clients |-> [count |-> 0, expiry |-> 0]]
    /\ adminRet = AdminRet("none", "corr-1", 0)
    /\ shell = NoShell

----------------------------------------------------------------------------
(* Process supervisor: processes.py *)

Pids == {101, 102}
MaxGen == 2

BackendCmd == <<"opencode", "serve", "--port", "9001">>
BareBackendCmd == <<"opencode", "serve">>
OtherCmd == <<"python", "serve.py">>
Cmdlines == {BackendCmd, BareBackendCmd, OtherCmd}

\* A slot of the process table. gen counts the processes the pid has been
\* given to: (pid, gen) is the identity psutil keeps as (pid, create_time).
Proc(running, gen, cmdline) ==
    [running |-> running, gen |-> gen, cmdline |-> cmdline]

NoProcs == [pid \in Pids |-> Proc(FALSE, 0, <<>>)]

ParseInt(text) == CASE text = "9001" -> 9001 [] OTHER -> 0

\* The loop over enumerate(cmd): the argument after the last `flag`.
option_value(cmd, flag, default) ==
    LET at == {i \in 1..(Len(cmd) - 1) : cmd[i] = flag}
    IN IF at = {} THEN default
       ELSE cmd[(CHOOSE i \in at : \A j \in at : j <= i) + 1]

\* "opencode" in cmd and "serve" in cmd
IsOpenCode(cmd) ==
    /\ \E i \in 1..Len(cmd) : cmd[i] = "opencode"
    /\ \E i \in 1..Len(cmd) : cmd[i] = "serve"

list_opencode_processes(table) ==
    {[pid      |-> pid,
      port     |-> IF option_value(table[pid].cmdline, "--port", "") = ""
                   THEN None
                   ELSE Some(ParseInt(option_value(table[pid].cmdline,
                                                   "--port", ""))),
      hostname |-> option_value(table[pid].cmdline, "--hostname", "")] :
        pid \in {q \in Pids : table[q].running /\ IsOpenCode(table[q].cmdline)}}

\* psutil's is_running(): the pid still belongs to the process (pid, gen).
IsRunning(table, pid, gen) == table[pid].running /\ table[pid].gen = gen

\* A kill_opencode_process call: its position, its argument, the pids of
\* open_processes, the identity `proc` is bound to, the psutil calls made
\* so far with their results, and the pair it returned or the exception
\* that escaped it.
KillCall(pc, pid, listed, proc, events, ret, raised) ==
    [pc |-> pc, pid |-> pid, listed |-> listed, proc |-> proc,
     events |-> events, ret |-> ret, raised |-> raised]

NoKill == KillCall("idle", 101, {}, None, <<>>, None, None)

Returned(call, success, message) ==
    [call EXCEPT !.pc = "done",
                 !.ret = Some([success |-> success, message |-> message])]

Logged(call, op, result, target) ==
    [call EXCEPT !.events = Append(@, [call |-> op, result |-> result,
                                       target |-> target])]

\* kill_opencode_process without the test of line 32.
kill_begin_unchecked(table, pid) ==
    KillCall("listed", pid, {p.pid : p \in list_opencode_processes(table)},
             None, <<>>, None, None)

\* Lines 31-33: the listing, and the early return for a pid it lacks.
kill_begin(table, pid) ==
    LET open_processes == list_opencode_processes(table)
        call == KillCall("listed", pid, {p.pid : p \in open_processes},
                         None, <<>>, None, None)
    IN IF pid \notin {p.pid : p \in open_processes}
       THEN Returned(call, FALSE,
                     "Process not found or not an OpenCode process.")
       ELSE call

\* Lines 35-38: psutil.Process(pid) binds to whichever process holds the
\* pid now.
kill_bind(table, call) ==
    IF ~table[call.pid].running
    THEN Returned(call, FALSE, "Process does not exist.")
    ELSE [call EXCEPT !.pc = "bound", !.proc = Some(table[call.pid].gen)]

\* The handlers without psutil.AccessDenied.
CaughtWithoutAccessDenied == {"NoSuchProcess", "TimeoutExpired"}

\* The exceptions the handlers of lines 47 and 50 name.
Caught == {"NoSuchProcess", "TimeoutExpired", "AccessDenied"}

\* An exception inside the try blocks: (False, message) when a handler
\* names it, else it leaves kill_opencode_process.
Raise(call, exc, failure) ==
    IF exc \in Caught
    THEN Returned(call, FALSE, failure)
    ELSE [call EXCEPT !.pc = "done", !.raised = Some(exc)]

\* proc.terminate() and proc.kill(): psutil raises NoSuchProcess when the
\* process is gone or its pid was given to another process, AccessDenied
\* when the signal is refused.
send_signal(table, call, op, denied, next_pc, failure) ==
    IF ~IsRunning(table, call.pid, call.proc[1])
    THEN Raise(Logged(call, op, "NoSuchProcess", <<>>), "NoSuchProcess",
               failure)
    ELSE IF denied
    THEN Raise(Logged(call, op, "AccessDenied", <<>>), "AccessDenied",
               failure)
    ELSE [Logged(call, op, "sent", table[call.pid].cmdline)
             EXCEPT !.pc = next_pc]

\* Line 40, and lines 50-51 for what it raises.
kill_terminate(table, call, denied) ==
    send_signal(table, call, "terminate", denied, "term_wait",
                "Failed to terminate process.")

\* The first wait taken to have returned whatever happened.
kill_wait_first_assumes_exit(call, outcome) ==
    Returned(Logged(call, "wait", outcome, <<>>), TRUE,
             "Process terminated successfully.")

\* Lines 41-43: proc.wait(timeout=3) returns, or raises TimeoutExpired.
kill_wait_first(call, outcome) ==
    IF outcome = "exited"
    THEN Returned(Logged(call, "wait", outcome, <<>>), TRUE,
                  "Process terminated successfully.")
    ELSE [Logged(call, "wait", outcome, <<>>) EXCEPT !.pc = "timed_out"]

\* Line 45, and lines 47-48 for what it raises.
kill_escalate(table, call, denied) ==
    send_signal(table, call, "kill", denied, "kill_wait",
                "Failed to kill process.")

\* Lines 46-49.
kill_wait_second(call, outcome) ==
    IF outcome = "exited"
    THEN Returned(Logged(call, "wait", outcome, <<>>), TRUE,
                  "Process terminated successfully.")
    ELSE Raise(Logged(call, "wait", outcome, <<>>), outcome,
               "Failed to kill process.")

\* What proc.wait(timeout=3) can do in a state: it returns once the
\* process is gone, and times out while its pid is in use.
WaitOutcomes(table, call) ==
    {o \in {"exited", "TimeoutExpired"} :
        \/ o = "exited" /\ ~IsRunning(table, call.pid, call.proc[1])
        \/ o = "TimeoutExpired" /\ table[call.pid].running}

AuxIdle ==
    /\ genLog = <<>>
    /\ normIn = <<>>
    /\ normOut = None
    /\ procs = NoProcs
    /\ kill = NoKill

----------------------------------------------------------------------------
(* Session Registry calls *)

RegRet(op, c, port, deleted) ==
    [op |-> op, corr |-> c, port |-> port, deleted |-> deleted]

RegIdle ==
    /\ regRet = RegRet("none", "corr-1", None, FALSE)
    /\ hist = <<>>

RegInit ==
    /\ instances = {}
    /\ RegIdle
    /\ ValIdle
    /\ CacheEmpty
    /\ GwIdle
    /\ AuxIdle

Put(c, p) ==
    /\ Len(hist) < MaxOps
    /\ instances' = insert_instance(instances, c, p)
    /\ regRet' = RegRet("put", c, Some(p), FALSE)
    /\ hist' = Append(hist, [op |-> "put", corr |-> c, port |-> p])
    /\ UNCHANGED <<valVars, cacheVars, gwVars, auxVars>>

Delete(c) ==
    /\ Len(hist) < MaxOps
    /\ instances' = delete_instance(instances, c).rows
    /\ regRet' = RegRet("delete", c, None, delete_instance(instances, c).ret)
    /\ hist' = Append(hist, [op |-> "delete", corr |-> c, port |-> 0])
    /\ UNCHANGED <<valVars, cacheVars, gwVars, auxVars>>

Get(c) ==
    /\ regRet' = RegRet("get", c, get_instance_port(instances, c), FALSE)
    /\ UNCHANGED <<instances, hist>>
    /\ UNCHANGED <<valVars, cacheVars, gwVars, auxVars>>

RegNext ==
    \/ \E c \in CorrIds, p \in Ports : Put(c, p)
    \/ \E c \in CorrIds : Delete(c)
    \/ \E c \in CorrIds : Get(c)

SpecRegistry == RegInit /\ [][RegNext]_vars

----------------------------------------------------------------------------
(* validate_request applied to drawn arguments *)

ValInit ==
    /\ valIn \in [spec : Schemas, method : Methods, path : ValPaths]
    /\ valOut = None
    /\ instances = {}
    /\ RegIdle
    /\ CacheEmpty
    /\ GwIdle
    /\ AuxIdle

Validate ==
    /\ valOut = None
    /\ valOut' = Some(validate_request(valIn.spec, valIn.method, valIn.path))
    /\ UNCHANGED <<valIn, regVars, cacheVars, gwVars, auxVars>>

ValNext == Validate

SpecValidate == ValInit /\ [][ValNext]_vars

----------------------------------------------------------------------------
(* get_openapi_spec called one call after another, while time passes *)

CacheDocs == {SchemaWidgets, SchemaNoPaths}

CacheInit ==
    /\ CacheEmpty
    /\ GwIdle
    /\ AuxIdle
    /\ instances = {}
    /\ RegIdle
    /\ ValIdle

Tick(d, horizon) ==
    /\ now + d <= horizon
    /\ now' = now + d
    /\ UNCHANGED <<spec_cache, specCall, regVars, valVars, gwVars, auxVars>>

GetSpecBegin(port) ==
    /\ specCall.pc # "fetching"
    /\ specCall' = get_openapi_spec_begin(spec_cache, Key(port), now, TTL)
    /\ UNCHANGED <<spec_cache, now, regVars, valVars, gwVars, auxVars>>

GetSpecReturn(outcome) ==
    /\ specCall.pc = "fetching"
    /\ spec_cache' = get_openapi_spec_return(spec_cache, specCall, outcome).cache
    /\ specCall' = get_openapi_spec_return(spec_cache, specCall, outcome).call
    /\ UNCHANGED <<now, regVars, valVars, gwVars, auxVars>>

CacheNext ==
    \/ \E d \in TickSteps : Tick(d, MaxTime)
    \/ \E p \in Ports : GetSpecBegin(p)
    \/ \E doc \in CacheDocs : GetSpecReturn(FetchOk(doc))
    \/ \E f \in FetchFailures : GetSpecReturn(f)

SpecCache == CacheInit /\ [][CacheNext]_vars

----------------------------------------------------------------------------
(* The gateway's endpoints *)

GwDocs == {SchemaWidgets}

Init ==
    /\ instances = {}
    /\ RegIdle
    /\ ValIdle
    /\ CacheEmpty
    /\ GwIdle
    /\ AuxIdle

\* POST /instances with a correlation id: ./setup_env.sh succeeded and
\* printed the port.
SetupOk(c, p) ==
    /\ shell' = ShellResult("setup_env.sh", c, TRUE, Some(p))
    /\ instances' = setup(instances, c, shell').rows
    /\ adminRet' = setup(instances, c, shell').answer
    /\ UNCHANGED <<regRet, hist, valVars, cacheVars, req, hits, auxVars>>

\* POST /instances: ./setup_env.sh exited non-zero (CalledProcessError).
SetupFailed(c) ==
    /\ shell' = ShellResult("setup_env.sh", c, FALSE, None)
    /\ instances' = setup(instances, c, shell').rows
    /\ adminRet' = setup(instances, c, shell').answer
    /\ UNCHANGED <<regRet, hist, valVars, cacheVars, req, hits, auxVars>>

\* DELETE /instances/{corr_id}: ./cleanup_env.sh succeeded.
CleanupOk(c) ==
    /\ shell' = ShellResult("cleanup_env.sh", c, TRUE, None)
    /\ instances' = cleanup(instances, c, shell').rows
    /\ adminRet' = cleanup(instances, c, shell').answer
    /\ UNCHANGED <<regRet, hist, valVars, cacheVars, req, hits, auxVars>>

\* DELETE /instances/{corr_id}: ./cleanup_env.sh exited non-zero.
CleanupFailed(c) ==
    /\ shell' = ShellResult("cleanup_env.sh", c, FALSE, None)
    /\ instances' = cleanup(instances, c, shell').rows
    /\ adminRet' = cleanup(instances, c, shell').answer
    /\ UNCHANGED <<regRet, hist, valVars, cacheVars, req, hits, auxVars>>

\* proxy_get, proxy_post, proxy_put, proxy_patch: straight to _proxy_request.
ProxyCall(method, c, path, client) ==
    /\ req.pc \in {"idle", "done"}
    /\ req' = proxy_request_begin(instances, spec_cache, now, method, c, path,
                                  client)
    /\ UNCHANGED <<regVars, valVars, cacheVars, hits, adminRet, shell,
                 auxVars>>

ProxyFetchReturn(outcome) ==
    /\ req.pc = "fetching"
    /\ spec_cache' = proxy_fetch_return(spec_cache, req, outcome).cache
    /\ req' = proxy_fetch_return(spec_cache, req, outcome).req
    /\ UNCHANGED <<regVars, valVars, now, specCall, hits, adminRet, shell,
                 auxVars>>

ProxyForwardReturn(outcome) ==
    /\ req.pc = "forwarding"
    /\ req' = proxy_forward_return(req, outcome)
    /\ UNCHANGED <<regVars, valVars, cacheVars, hits, adminRet, shell,
                 auxVars>>

Next ==
    \/ \E c \in CorrIds, p \in Ports : SetupOk(c, p)
    \/ \E c \in CorrIds : SetupFailed(c)
    \/ \E c \in CorrIds : CleanupOk(c)
    \/ \E c \in CorrIds : CleanupFailed(c)
    \/ \E m \in {"GET", "POST"}, c \in CorrIds, path \in GwPaths :
          ProxyCall(m, c, path, "10.0.0.1")
    \/ \E doc \in GwDocs : ProxyFetchReturn(FetchOk(doc))
    \/ \E f \in FetchFailures : ProxyFetchReturn(f)
    \/ \E a \in BackendAnswers : ProxyForwardReturn(a)
    \/ ProxyForwardReturn(BackendDown)
    \/ \E d \in GwTickSteps : Tick(d, GwMaxTime)

Spec == Init /\ [][Next]_vars

----------------------------------------------------------------------------
(* The rate-limited endpoint, for one registered session *)

RateInit ==
    /\ instances = {Row("corr-1", 9001)}
    /\ RegIdle
    /\ ValIdle
    /\ CacheEmpty
    /\ GwIdle
    /\ AuxIdle

\* DELETE /instances/{corr_id}/proxy.
ProxyDelete(c, path, client) ==
    /\ req.pc \in {"idle", "done"}
    /\ hits[client].count < MaxHits
    /\ hits' = proxy_delete(hits, instances, spec_cache, now, c, path, client).storage
    /\ req' = proxy_delete(hits, instances, spec_cache, now, c, path, client).req
    /\ UNCHANGED <<regVars, valVars, cacheVars, adminRet, shell, auxVars>>

RateNext ==
    \/ \E c \in CorrIds, client \in Clients : ProxyDelete(c, <<"/", "s">>, client)
    \/ \E client \in Clients : ProxyCall("GET", "corr-1", <<"/", "s">>, client)
    \/ ProxyFetchReturn(FetchOk(SchemaWidgets))
    \/ ProxyForwardReturn(BackendAnswer(200, "{echo: true}"))
    \/ \E d \in RateTickSteps : Tick(d, RateMaxTime)

SpecRateLimit == RateInit /\ [][RateNext]_vars

----------------------------------------------------------------------------
(* POST /processes/{pid}/kill, while processes start and exit *)

KillInit ==
    /\ instances = {}
    /\ RegIdle
    /\ ValIdle
    /\ CacheEmpty
    /\ GwIdle
    /\ AuxIdle

KillFrame == UNCHANGED <<regVars, valVars, cacheVars, gwVars, genLog, normVars>>

\* The operating system gives a free pid to a new process.
Spawn(pid, cmd) ==
    /\ ~procs[pid].running
    /\ procs[pid].gen < MaxGen
    /\ procs' = [procs EXCEPT ![pid] = Proc(TRUE, procs[pid].gen + 1, cmd)]
    /\ UNCHANGED kill
    /\ KillFrame

\* A process exits, of its own accord or because of a signal.
Exit(pid) ==
    /\ procs[pid].running
    /\ procs' = [procs EXCEPT ![pid] = Proc(FALSE, procs[pid].gen, <<>>)]
    /\ UNCHANGED kill
    /\ KillFrame

KillBegin(pid) ==
    /\ kill.pc \in {"idle", "done"}
    /\ kill' = kill_begin(procs, pid)
    /\ UNCHANGED procs
    /\ KillFrame

KillBind ==
    /\ kill.pc = "listed"
    /\ kill' = kill_bind(procs, kill)
    /\ UNCHANGED procs
    /\ KillFrame

KillTerminate(denied) ==
    /\ kill.pc = "bound"
    /\ kill' = kill_terminate(procs, kill, denied)
    /\ UNCHANGED procs
    /\ KillFrame

KillWaitFirst(outcome) ==
    /\ kill.pc = "term_wait"
    /\ outcome \in WaitOutcomes(procs, kill)
    /\ kill' = kill_wait_first(kill, outcome)
    /\ UNCHANGED procs
    /\ KillFrame

KillEscalate(denied) ==
    /\ kill.pc = "timed_out"
    /\ kill' = kill_escalate(procs, kill, denied)
    /\ UNCHANGED procs
    /\ KillFrame

KillWaitSecond(outcome) ==
    /\ kill.pc = "kill_wait"
    /\ outcome \in WaitOutcomes(procs, kill)
    /\ kill' = kill_wait_second(kill, outcome)
    /\ UNCHANGED procs
    /\ KillFrame

KillNext ==
    \/ \E pid \in Pids, cmd \in Cmdlines : Spawn(pid, cmd)
    \/ \E pid \in Pids : Exit(pid)
    \/ \E pid \in Pids : KillBegin(pid)
    \/ KillBind
    \/ \E denied \in BOOLEAN : KillTerminate(denied)
    \/ \E o \in {"exited", "TimeoutExpired"} : KillWaitFirst(o)
    \/ \E denied \in BOOLEAN : KillEscalate(denied)
    \/ \E o \in {"exited", "TimeoutExpired"} : KillWaitSecond(o)

SpecKill == KillInit /\ [][KillNext]_vars

----------------------------------------------------------------------------
(* The path normalization of _proxy_request, applied to drawn sub-paths *)

MaxPathLen == 5
NormPaths == UNION {[1..n -> {"/", "s"}] : n \in 0..MaxPathLen}

NormInit ==
    /\ normIn \in NormPaths
    /\ normOut = None
    /\ instances = {}
    /\ RegIdle
    /\ ValIdle
    /\ CacheEmpty
    /\ GwIdle
    /\ genLog = <<>>
    /\ procs = NoProcs
    /\ kill = NoKill

Normalize ==
    /\ normOut = None
    /\ normOut' = Some(normalize_path(normIn))
    /\ UNCHANGED <<normIn, regVars, valVars, cacheVars, gwVars, genLog,
                   procVars>>

NormNext == Normalize

SpecNormalize == NormInit /\ [][NormNext]_vars

----------------------------------------------------------------------------
(* POST /instances without a correlation id, while the clock advances *)

MaxGenerated == 2
SetupMaxTime == 2
SetupTickSteps == {1}

\* f"corr-{int(datetime.utcnow().timestamp() * 1000)}"
GenId(t) == "corr-" \o ToString(t * 1000)

SetupInit ==
    /\ instances = {}
    /\ RegIdle
    /\ ValIdle
    /\ CacheEmpty
    /\ GwIdle
    /\ AuxIdle

\* POST /instances without a correlation id: the id is made from the
\* clock, then the call goes on as with a supplied id.
SetupGenerated(p) ==
    /\ Len(genLog) < MaxGenerated
    /\ shell' = ShellResult("setup_env.sh", GenId(now), TRUE, Some(p))
    /\ instances' = setup(instances, GenId(now), shell').rows
    /\ adminRet' = setup(instances, GenId(now), shell').answer
    /\ genLog' = Append(genLog, Row(GenId(now), p))
    /\ UNCHANGED <<regRet, hist, valVars, cacheVars, req, hits, normVars,
                   procVars>>

SetupNext ==
    \/ \E p \in Ports : SetupGenerated(p)
    \/ \E p \in Ports : SetupOk("corr-1", p)
    \/ SetupFailed(GenId(now))
    \/ \E r \in instances : CleanupOk(r.correlation_id)
    \/ \E r \in instances : CleanupFailed(r.correlation_id)
    \/ \E d \in SetupTickSteps : Tick(d, SetupMaxTime)

SpecSetup == SetupInit /\ [][SetupNext]_vars

----------------------------------------------------------------------------
(* C1, C2: the registry contract *)

\* What the call history says Get(c) must return: the port of the last
\* Put(c, p) when no Delete(c) follows it, None otherwise.
RECURSIVE Expected(_, _)
Expected(h, c) ==
    IF h = <<>> THEN None
    ELSE LET last == h[Len(h)]
         IN IF last.corr = c
            THEN IF last.op = "put" THEN Some(last.port) ELSE None
            ELSE Expected(SubSeq(h, 1, Len(h) - 1), c)

\* C1: after any sequence of Put and Delete, Get(c) returns the port of the
\* most recent Put(c, p) unless a Delete(c) came after it (then None), and the
\* registry never holds more than one port for one correlation id.
C1_LastWriterWins ==
    /\ \A c \in CorrIds : get_instance_port(instances, c) = Expected(hist, c)
    /\ \A c \in CorrIds : Cardinality(RowsOf(instances, c)) <= 1
    /\ regRet.op = "get" => regRet.port = Expected(hist, regRet.corr)

\* A Get that returns a port written over an earlier, different port.
C1_Witness ==
    /\ regRet.op = "get"
    /\ regRet.port # None
    /\ \E i \in 1..Len(hist) : \E j \in (i+1)..Len(hist) :
          /\ hist[i].op = "put" /\ hist[j].op = "put"
          /\ hist[i].corr = regRet.corr /\ hist[j].corr = regRet.corr
          /\ hist[i].port # hist[j].port

\* C2: Delete(c) returns true exactly when an entry for c existed just before,
\* leaves no entry for c, returns false when it directly follows a Delete(c),
\* and leaves every other correlation id's entry as it was.
C2_DeleteStep ==
    (regRet'.op = "delete" /\ hist' # hist) =>
        LET c == regRet'.corr
        IN /\ regRet'.deleted = (RowsOf(instances, c) # {})
           /\ get_instance_port(instances', c) = None
           /\ (regRet.op = "delete" /\ regRet.corr = c) => ~regRet'.deleted
           /\ \A d \in CorrIds \ {c} : RowsOf(instances', d) = RowsOf(instances, d)

C2_DeleteReportsExistence == [][C2_DeleteStep]_vars

\* A Delete that removed an entry while another id's entry stayed.
C2_Witness ==
    /\ regRet.op = "delete"
    /\ regRet.deleted
    /\ instances # {}

----------------------------------------------------------------------------
(* C3: the validator contract *)

\* The segments of a text between its "/" separators.
RECURSIVE Segments(_)
Segments(text) ==
    IF \A k \in 1..Len(text) : text[k] # "/" THEN <<text>>
    ELSE LET k == CHOOSE i \in 1..Len(text) :
                      text[i] = "/" /\ \A j \in 1..(i-1) : text[j] # "/"
         IN <<SubSeq(text, 1, k - 1)>> \o Segments(SubSeq(text, k + 1, Len(text)))

IsPlaceholder(seg) ==
    Len(seg) >= 3 /\ seg[1] = "{" /\ seg[Len(seg)] = "}"

\* A template matches a decoded path when they have the same number of
\* segments and each template segment is the path's segment, or a placeholder
\* facing a non-empty segment.
TemplateMatches(template, decoded) ==
    LET ts == Segments(template)
        ps == Segments(decoded)
    IN /\ Len(ts) = Len(ps)
       /\ \A i \in 1..Len(ts) :
             IF IsPlaceholder(ts[i]) THEN ps[i] # <<>> ELSE ts[i] = ps[i]

\* What the Validator contract asks of a document with a paths section.
ContractVerdict(spec, method, path) ==
    LET matching == {i \in 1..Len(spec.paths) :
                    TemplateMatches(spec.paths[i].template, unquote(path))}
    IN IF matching = {} THEN Rejected("path not found in spec")
       ELSE LET first == CHOOSE i \in matching : \A j \in matching : i <= j
            IN IF Lower(method) \in {Lower(m) : m \in spec.paths[first].methods}
               THEN Accepted
               ELSE Rejected("method not allowed for path")

\* C3: for a schema with a paths section, Validate returns ok exactly when the
\* first declared template matching the decoded path declares the method
\* (case-insensitively), rejects with "method not allowed for path" when it
\* does not, and with "path not found in spec" when no template matches.
C3_ValidateContract ==
    (valOut # None /\ valIn.spec.hasPaths) =>
        valOut[1] = ContractVerdict(valIn.spec, valIn.method, valIn.path)

----------------------------------------------------------------------------
(* C6, C7: the Spec Cache contract *)

\* A step that starts a get_openapi_spec call, and one that ends its fetch.
IsGetSpecBegin == specCall.pc # "fetching" /\ specCall' # specCall
IsGetSpecReturn == specCall.pc = "fetching" /\ specCall'.pc = "done"

C6_Step ==
    LET k == specCall'.key
    IN /\ IsGetSpecBegin =>
            /\ spec_cache' = spec_cache
            \* this call and the previous one, on one key, within the TTL
            /\ ( /\ specCall.pc = "done" /\ specCall.error = "none"
                 /\ specCall.key = k /\ now - specCall.now0 < TTL )
               => /\ specCall.fetched + specCall'.fetched <= 1
                  /\ specCall.fetched = 1 =>
                        /\ specCall'.pc = "done"
                        /\ specCall'.result = specCall.result
            \* a fresh entry is returned with no network call
            /\ (spec_cache[k] # None /\ now - spec_cache[k][1].timestamp < TTL)
               => /\ specCall'.fetched = 0
                  /\ specCall'.result = Some(spec_cache[k][1].spec)
            \* an expired or missing entry is fetched
            /\ (spec_cache[k] = None \/ now - spec_cache[k][1].timestamp >= TTL)
               => specCall'.fetched = 1 /\ specCall'.pc = "fetching"
       /\ IsGetSpecReturn =>
            /\ specCall'.fetched = 1
            /\ \A j \in Keys \ {k} : spec_cache'[j] = spec_cache[j]
            /\ specCall'.error = "none" =>
                  /\ specCall'.result # None
                  /\ spec_cache'[k] =
                        Some(CacheEntry(specCall'.result[1], specCall.now0))
                  /\ spec_cache[k] # None =>
                        spec_cache'[k][1].timestamp > spec_cache[k][1].timestamp

\* C6: of two successive GetSpec calls on one key within the TTL at most one
\* fetches (after a fetch that returned a document, the next call returns that
\* document with no network call); a call that finds the entry expired sends
\* exactly one fetch and, when it succeeds, replaces the entry with the new
\* document under a newer timestamp; other keys' entries are not touched.
C6_CacheWithinTTL == [][C6_Step]_vars

\* A call that found an expired entry, fetched once and replaced the entry.
C6_Witness ==
    /\ specCall.pc = "done" /\ specCall.error = "none"
    /\ specCall.fetched = 1
    /\ specCall.seen # None
    /\ spec_cache[specCall.key] # None
    /\ spec_cache[specCall.key][1].timestamp = specCall.now0
    /\ \E j \in Keys \ {specCall.key} : spec_cache[j] # None

C7_Step ==
    /\ IsGetSpecBegin => spec_cache' = spec_cache
    /\ (specCall.pc = "fetching" /\ specCall'.pc = "fetching")
          => spec_cache' = spec_cache
    /\ (IsGetSpecReturn /\ specCall.pc = "fetching"
        /\ ~(specCall'.error = "none" /\ specCall'.result # None))
          => /\ specCall'.error # "none"
             /\ specCall'.result = None
             /\ spec_cache' = spec_cache
    /\ ( /\ IsGetSpecBegin
         /\ specCall.pc = "done" /\ specCall.error # "none"
         /\ specCall'.key = specCall.key )
          => specCall'.pc = "fetching" /\ specCall'.fetched = 1

\* C7: a failed fetch (network error, non-success status, malformed body)
\* raises out of GetSpec, leaves every key's cache entry as it was when the
\* call started, and the next GetSpec of that key fetches again.
C7_NoNegativeCaching == [][C7_Step]_vars

\* A fetch that failed while an older entry of that key was in the cache.
C7_Witness ==
    /\ specCall.pc = "done"
    /\ specCall.error # "none"
    /\ spec_cache[specCall.key] # None

----------------------------------------------------------------------------
(* C4, C5, C8, C9: the Proxy Gateway *)

Forwarded(r) == \E o \in r.outbound : o.kind = "forward"

Status(r) == r.response[1].status

\* The document the request was validated against does not allow it.
OutOfSpec(r) ==
    /\ r.call.result # None
    /\ \/ ~r.call.result[1].hasPaths
       \/ ~ContractVerdict(r.call.result[1], r.method, r.npath).ok

\* C4: a request whose (method, normalized path) the backend's spec does not
\* allow is never forwarded; it is answered 422 and at most the spec fetch
\* went out for it.
C4_OutOfSpecNeverForwarded ==
    OutOfSpec(req) =>
        /\ ~Forwarded(req)
        /\ req.pc = "done" => Status(req) = 422

\* A step that starts handling a proxied request.
IsProxyBegin == req.pc \in {"idle", "done"} /\ req' # req

C5_Step ==
    /\ (IsProxyBegin /\ RowsOf(instances, req'.corr) = {}) =>
          /\ req'.pc = "done"
          /\ req'.response = Some(HTTPException(404, "No active session"))
          /\ req'.outbound = {}
    /\ ( /\ req.pc = "forwarding" /\ req'.pc = "done"
         /\ req'.upstream # None /\ req'.upstream[1].kind = "answer" ) =>
          /\ req.port # None
          /\ req'.response # None
          /\ Status(req') = req'.upstream[1].status
          /\ req'.response[1].body = req'.upstream[1].body
          /\ req'.outbound = req.outbound

\* C5: a proxied request for an id with no registry entry at lookup time is
\* answered 404 "No active session" with no outbound call; a forwarded request
\* whose backend answers is relayed with the backend's status and body.
C5_NotFoundAndRelay == [][C5_Step]_vars

\* A 404 for an unregistered id while another session is registered and its
\* backend's document is cached.
C5_Witness ==
    /\ req.pc = "done"
    /\ req.response = Some(HTTPException(404, "No active session"))
    /\ instances # {}
    /\ \E k \in Keys : spec_cache[k] # None

\* C8: every failure of the spec fetch (network error, non-success status,
\* malformed body) is answered 502, and the request is not forwarded.
C8_SpecFetchFailureIs502 ==
    (req.pc = "done" /\ req.call.error # "none") =>
        /\ Status(req) = 502
        /\ ~Forwarded(req)

\* The connection to the session's port failed: on the spec fetch, or, with a
\* fresh spec in the cache, on the forward call.
ConnectionFailed(r) ==
    \/ r.call.fetched = 1 /\ r.call.error = "httpx.RequestError"
    \/ /\ r.call.pc = "done" /\ r.call.fetched = 0
       /\ r.upstream # None /\ r.upstream[1].kind = "connect_error"

\* C9: a request routed to a port with no live backend is answered 502, on
\* the spec fetch and on the forward call alike.
C9_StaleRouteIs502 ==
    (req.pc = "done" /\ ConnectionFailed(req)) => Status(req) = 502

----------------------------------------------------------------------------
(* C10: the DELETE rate limit *)

C10_Step ==
    /\ \A c \in Clients : hits'[c] # hits[c] =>
          /\ req'.method = "DELETE" /\ req'.client = c
          /\ \A d \in Clients \ {c} : hits'[d] = hits[d]
          /\ LiveCount(hits, c, now) >= RateLimit =>
                /\ req'.pc = "done"
                /\ Status(req') = 429
                /\ req'.outbound = {}
                /\ req'.port = None
                /\ req'.call = NoSpecCall
          /\ LiveCount(hits, c, now) < RateLimit =>
                /\ req'.response # None => Status(req') # 429
                /\ req'.port = get_instance_port(instances, req'.corr)
    /\ (req' # req /\ req'.method # "DELETE") =>
          /\ hits' = hits
          /\ req'.response # None => Status(req') # 429
    /\ (req'.response # None /\ Status(req') = 429) =>
          /\ req'.method = "DELETE"
          /\ ~Forwarded(req')

----------------------------------------------------------------------------
(* C11, C12, C17: the kill call *)

IsKillBegin == kill.pc \in {"idle", "done"} /\ kill' # kill

NotFound ==
    Some([success |-> FALSE,
          message |-> "Process not found or not an OpenCode process."])

C11_Step ==
    (IsKillBegin
     /\ kill'.pid \notin {p.pid : p \in list_opencode_processes(procs)})
    => /\ kill'.pc = "done"
       /\ kill'.ret = NotFound
       /\ kill'.raised = None
       /\ kill'.events = <<>>

\* C11: a kill call for a pid that the listing taken at its start lacks
\* returns (False, "Process not found or not an OpenCode process.") at
\* once, having made no terminate, kill or wait call.
C11_NotListedNotSignalled == [][C11_Step]_vars

\* A call returned "not found" for the pid of a running process that is
\* not a backend.
C11_Witness ==
    /\ kill.pc = "done"
    /\ kill.ret = NotFound
    /\ procs[kill.pid].running
    /\ ~IsOpenCode(procs[kill.pid].cmdline)

Succeeded(call) == call.ret # None /\ call.ret[1].success

Failed(call) == call.pc = "done" /\ call.ret # None /\ ~call.ret[1].success

\* C12: in every kill call terminate() is the first signal; kill() is sent
\* only as the third psutil call, after a terminate() that was sent and a
\* wait that timed out, and to the process terminate() was sent to; the
\* call returns success only when its last psutil call was a wait that
\* returned and the process is gone; NoSuchProcess and AccessDenied from
\* terminate() or kill(), and a timeout of the second wait, end the call
\* with (False, message), and no exception leaves the call.
C12_Escalation ==
    LET ev == kill.events
    IN /\ kill.raised = None
       /\ Len(ev) >= 1 => ev[1].call = "terminate"
       /\ \A i \in 1..Len(ev) :
             ev[i].call = "kill" =>
                /\ i = 3
                /\ ev[1].result = "sent"
                /\ ev[2] = [call |-> "wait", result |-> "TimeoutExpired",
                            target |-> <<>>]
                /\ ev[3].result = "sent" => ev[3].target = ev[1].target
       /\ Succeeded(kill) =>
             /\ ev[Len(ev)].call = "wait"
             /\ ev[Len(ev)].result = "exited"
             /\ ~IsRunning(procs, kill.pid, kill.proc[1])
       /\ \A i \in 1..Len(ev) :
             (\/ ev[i].result \in {"NoSuchProcess", "AccessDenied"}
              \/ i = 4 /\ ev[i].result = "TimeoutExpired")
             => i = Len(ev) /\ Failed(kill)

\* A call escalated to kill() and then saw the process exit.
C12_Witness ==
    /\ Len(kill.events) = 4
    /\ kill.events[3].call = "kill"
    /\ kill.events[3].result = "sent"
    /\ Succeeded(kill)

\* C17: every terminate() and kill() that a kill call sent went to a
\* process whose command line is a backend's, also when pids are given to
\* new processes while the call runs.
C17_OnlyBackendsSignalled ==
    \A i \in 1..Len(kill.events) :
        kill.events[i].result = "sent" => IsOpenCode(kill.events[i].target)

----------------------------------------------------------------------------
(* C13, C14, C20: provisioning and teardown *)

IsSetup ==
    /\ shell'.script = "setup_env.sh"
    /\ shell' # shell \/ adminRet' # adminRet \/ instances' # instances

IsCleanup ==
    /\ shell'.script = "cleanup_env.sh"
    /\ shell' # shell \/ adminRet' # adminRet \/ instances' # instances

C13_Step ==
    /\ \A r \in instances' \ instances :
          /\ shell' = ShellResult("setup_env.sh", r.correlation_id, TRUE,
                                  Some(r.port))
          /\ adminRet' = AdminRet("setup", r.correlation_id, 200)
    /\ (IsSetup /\ ~shell'.ok) =>
          /\ adminRet' = AdminRet("setup", shell'.corr, 500)
          /\ instances' = instances
    /\ (IsSetup /\ shell'.ok) =>
          /\ adminRet' = AdminRet("setup", shell'.corr, 200)
          /\ RowsOf(instances', shell'.corr) =
                {Row(shell'.corr, shell'.port[1])}

\* C13: a row (c, p) enters the registry only in a POST /instances whose
\* setup script succeeded for c and printed port p, and that call answers
\* 200 with c; a POST /instances whose script failed answers 500 and
\* leaves the registry as it was.
C13_RegisteredByProvisioning == [][C13_Step]_vars

\* A session is registered, and the provisioning of another id failed and
\* registered nothing.
C13_Witness ==
    /\ Row("corr-1", 9002) \in instances
    /\ shell = ShellResult("setup_env.sh", "corr-2", FALSE, None)
    /\ adminRet = AdminRet("setup", "corr-2", 500)
    /\ RowsOf(instances, "corr-2") = {}

Cleaned(c) == adminRet = AdminRet("cleanup", c, 200)

C14_Step ==
    /\ (IsCleanup /\ shell'.ok) =>
          /\ adminRet' = AdminRet("cleanup", shell'.corr, 200)
          /\ instances' = instances \ RowsOf(instances, shell'.corr)
    /\ (IsCleanup /\ ~shell'.ok) =>
          adminRet' = AdminRet("cleanup", shell'.corr, 500)
    /\ \A c \in CorrIds :
          /\ Cleaned(c)' => RowsOf(instances', c) = {}
          /\ (Cleaned(c) /\ IsProxyBegin /\ req'.corr = c) =>
                /\ req'.pc = "done"
                /\ Status(req') = 404

\* C14: a DELETE /instances/{id} whose cleanup script succeeded removes the
\* row of id, leaves the other rows and answers "cleaned"; while "cleaned"
\* for id is the last provisioning or teardown answer the registry has no
\* row for id and a proxied request for id that starts then is answered
\* 404; a DELETE /instances/{id} whose script failed answers 500.
C14_CleanedMeansGone == [][C14_Step]_vars

\* A proxied request for a session whose teardown answered "cleaned" was
\* answered 404, while another session stays registered.
C14_Witness ==
    /\ Cleaned("corr-1")
    /\ req.pc = "done"
    /\ req.corr = "corr-1"
    /\ req.port = None
    /\ Status(req) = 404
    /\ RowsOf(instances, "corr-2") # {}

C20_Step ==
    (IsCleanup /\ ~shell'.ok) =>
        /\ instances' = instances
        /\ \A c \in CorrIds :
              get_instance_port(instances', c) = get_instance_port(instances, c)

\* C20: a DELETE /instances/{id} whose cleanup script failed leaves every
\* row of the registry as it was: id keeps its port and stays routable,
\* and no other session changes.
C20_FailedCleanupKeepsRegistry == [][C20_Step]_vars

\* The teardown of a registered session failed, and a proxied request for
\* it made afterwards was routed to its port.
C20_Witness ==
    /\ adminRet = AdminRet("cleanup", "corr-1", 500)
    /\ ~shell.ok
    /\ Row("corr-1", 9001) \in instances
    /\ req.corr = "corr-1"
    /\ req.port = Some(9001)
    /\ Forwarded(req)

----------------------------------------------------------------------------
(* C19: teardown while a proxied request is in flight *)

\* A step in which _proxy_request sends the request to the backend.
SendsForward == req.pc # "forwarding" /\ req'.pc = "forwarding"

C19_Step ==
    \A c \in CorrIds :
        (Cleaned(c) /\ req'.corr = c) => ~SendsForward

\* C19: while "cleaned" for id is the last provisioning or teardown answer,
\* no proxied request for id is sent to a backend, also not one whose port
\* was looked up before the teardown.
C19_NoForwardAfterCleaned == [][C19_Step]_vars

----------------------------------------------------------------------------
(* C15: a document without a paths section *)

\* C15: for a schema without a paths section, Validate rejects with
\* "no paths defined", whatever the method and the path.
C15_NoPathsRejected ==
    (valOut # None /\ ~valIn.spec.hasPaths) =>
        valOut[1] = Rejected("no paths defined")

----------------------------------------------------------------------------
(* C16: path normalization *)

RECURSIVE StripLeadingSlashes(_)
StripLeadingSlashes(path) ==
    IF path # <<>> /\ path[1] = "/" THEN StripLeadingSlashes(Tail(path))
    ELSE path

\* C16: the normalized path is one '/' followed by the inbound sub-path
\* without its leading '/' characters, for sub-paths that are empty, that
\* start with no '/', with one '/' and with several.
C16_OneLeadingSlash ==
    normOut # None => normOut[1] = <<"/">> \o StripLeadingSlashes(normIn)

----------------------------------------------------------------------------
(* C18: generated correlation ids *)

\* C18: the POST /instances calls that supplied no correlation id and
\* succeeded were registered under pairwise distinct ids, also when two of
\* them read the same clock value.
C18_GeneratedIdsDistinct ==
    \A i, j \in 1..Len(genLog) :
        i < j => genLog[i].correlation_id # genLog[j].correlation_id

====
